---- MODULE Spec2Model ----
(***************************************************************************)
(* A model of the emoji renderer of pilmoji / apilmoji.                    *)
(*                                                                         *)
(*   src/src/pilmoji/core.py    Pilmoji: in-memory caches, text(),         *)
(*                              text_with_discord_emoji(), _render_emoji() *)
(*   src/src/pilmoji/source.py  EmojiCDNSource / DiscordEmojiSourceMixin:  *)
(*                              disk cache, download                      *)
(*   src/src/apilmoji/core.py   Pilmoji.text() with pre-resized emoji      *)
(*                                                                         *)
(* Numbers that Python holds as floats (font size, measured text width)    *)
(* are held in quarters of a pixel, so int(x) is a division by four.       *)
(* Bytes are sequences of small integers; a file being written is a        *)
(* prefix of the bytes being stored.                                       *)
(*                                                                         *)
(* A render call awaits the gather of its tasks, and a task awaits the     *)
(* disk and the network: every stretch of code between two awaits is one   *)
(* step, and the steps of the coroutines of one event loop interleave.     *)
(* Each caller has the frame of its render call (call) and each task the   *)
(* frame of its coroutine (co); a stream is the bytes it holds, and the    *)
(* frames record which of their streams close() has closed.                *)
(***************************************************************************)
EXTENDS Integers, Sequences, FiniteSets, TLC

\* ------------------------------------------------------------- bounds
MaxLines == 2
MaxNodes == 2

\* ------------------------------------------------------------- values
\* Python's None where bytes are expected: bytes hold only numbers >= 0
None == <<-1>>

\* err when the call has raised nothing
NoError == "none"

\* Pilmoji.EMOJI_PADDING (pilmoji) and the literal 2 of apilmoji's _resize_emoji
EMOJI_PADDING == 1
ResizeMargin == 2

\* EmojiStyle.APPLE, the default style of EmojiCDNSource
Style == "apple"

\* Image bodies. A body decodes when it is a complete picture: a signature
\* byte followed by the width and the height.
PngTall == <<137, 5, 41>>
JunkBody == <<60, 33>>
Bodies == {PngTall, JunkBody}

\* PIL.Image.open(bytesio) succeeds; otherwise it raises UnidentifiedImageError
Decodable(b) == Len(b) = 3 /\ b[1] = 137 /\ b[2] > 0 /\ b[3] > 0

\* the size of the decoded picture
Decode(b) == [width |-> b[2], height |-> b[3]]

\* The exceptions self.download(url) can end in: raise_for_status on an error
\* status (404 included), a timeout, a refused connection
TransportErrors == {"HTTPStatusError", "ConnectTimeout", "ConnectError"}

\* A handler that catches the error status only (except HTTPStatusError)
IsHTTPStatusErrorOnly(e) == e = "HTTPStatusError"

\* except HTTPError: the exceptions the source's handler catches. httpx
\* derives HTTPStatusError and RequestError (timeouts, connection errors)
\* from HTTPError.
IsHTTPError(e) == e \in {"HTTPStatusError", "ConnectTimeout", "ConnectError"}

\* What one self.download(url) can end in: the response body, or an exception
Responses ==
  [ok : {TRUE}, body : Bodies, exc : {NoError}]
    \cup [ok : {FALSE}, body : {None}, exc : TransportErrors]

\* no download was issued
NoResponse == [ok |-> FALSE, body |-> None, exc |-> "unsent"]

\* ------------------------------------------------------------- nodes
TextNode == [type |-> "TEXT", content |-> "Hi "]
EmojiNode == [type |-> "EMOJI", content |-> "thumbs_up"]
DiscordNode == [type |-> "DISCORD_EMOJI", content |-> "7"]

\* the display name in the custom-emoji reference <:n:7> that DiscordNode is
\* parsed from
RefName == "n"

\* int(node.content) / int(id) for the custom-emoji ids of the model
IntOf(s) == CASE s = "7" -> 7 [] s = "007" -> 7 [] OTHER -> 0

\* f"{id}" for the custom-emoji ids of the model
StrOf(n) == CASE n = 7 -> "7" [] OTHER -> "0"

NodeAlphabet(ds) == IF ds THEN {TextNode, EmojiNode, DiscordNode} ELSE {TextNode, EmojiNode}

\* The tokenizer joins neighbouring characters of text into one TEXT node,
\* so no line holds two TEXT nodes side by side.
Coalesced(line) ==
  \A i \in 1..(Len(line) - 1) : ~(line[i].type = "TEXT" /\ line[i + 1].type = "TEXT")

SeqsUpTo(S, n) == UNION {[1..k -> S] : k \in 0..n}

RECURSIVE NodeCount(_)
NodeCount(ls) == IF ls = <<>> THEN 0 ELSE Len(Head(ls)) + NodeCount(Tail(ls))

\* The inputs of a render call: at most MaxLines lines holding at most
\* MaxNodes nodes between them
LinesOf(ds) == {l \in SeqsUpTo(NodeAlphabet(ds), MaxNodes) : Coalesced(l)}
ListsOf(ds) == {ls \in SeqsUpTo(LinesOf(ds), MaxLines) : NodeCount(ls) <= MaxNodes}
ListsWithDiscord == ListsOf(TRUE)
ListsWithout == ListsOf(FALSE)
LineLists(ds) == IF ds THEN ListsWithDiscord ELSE ListsWithout

\* ------------------------------------------------------------- tokenizer
\* to_nodes / parse_lines on one line. The line is a sequence of characters;
\* "thumbs_up" stands for the one character of the emoji.
MaxLineLen == 6
Chars == {"thumbs_up", "<", ":", "n", "7", ">"}
NameChars == {"n", "7"}
Digits == {"7"}
EmojiRegistry == {"thumbs_up"}
RawLines == SeqsUpTo(Chars, MaxLineLen)

\* the string of a sequence of characters
RECURSIVE Str(_)
Str(cs) == IF cs = <<>> THEN "" ELSE cs[1] \o Str(Tail(cs))

\* the first position from i on whose character is not in S
RECURSIVE RunEnd(_, _, _)
RunEnd(line, i, S) ==
  IF i <= Len(line) /\ line[i] \in S THEN RunEnd(line, i + 1, S) ELSE i

\* A custom-emoji reference <:name:id> starts at position i: the position
\* of its ">" and the characters of its id; 0 when none starts there
RefAt(line, i) ==
  IF i + 1 <= Len(line) /\ line[i] = "<" /\ line[i + 1] = ":"
  THEN LET n == RunEnd(line, i + 2, NameChars)
           d == RunEnd(line, n + 1, Digits)
       IN IF /\ n > i + 2
             /\ n <= Len(line) /\ line[n] = ":"
             /\ d > n + 1
             /\ d <= Len(line) /\ line[d] = ">"
          THEN [end |-> d, id |-> SubSeq(line, n + 1, d - 1)]
          ELSE [end |-> 0, id |-> <<>>]
  ELSE [end |-> 0, id |-> <<>>]

\* the nodes so far, the pending run of plain text closed into a TEXT node
Flush(acc, run) ==
  IF run = <<>> THEN acc ELSE Append(acc, [type |-> "TEXT", content |-> Str(run)])

\* A tokenizer that drops the plain text in front of an emoji
RECURSIVE ScanDropsRun(_, _, _, _, _)
ScanDropsRun(line, detect, i, run, acc) ==
  IF i > Len(line) THEN Flush(acc, run)
  ELSE IF detect /\ RefAt(line, i).end > 0
       THEN ScanDropsRun(line, detect, RefAt(line, i).end + 1, <<>>,
                 Append(acc, [type |-> "DISCORD_EMOJI", content |-> Str(RefAt(line, i).id)]))
  ELSE IF line[i] \in EmojiRegistry
       THEN ScanDropsRun(line, detect, i + 1, <<>>,
                 Append(acc, [type |-> "EMOJI", content |-> line[i]]))
  ELSE ScanDropsRun(line, detect, i + 1, Append(run, line[i]), acc)

\* The scan from position i: a custom-emoji reference when detection is on,
\* else an emoji of the registry, else one more character of plain text
RECURSIVE Scan(_, _, _, _, _)
Scan(line, detect, i, run, acc) ==
  IF i > Len(line) THEN Flush(acc, run)
  ELSE IF detect /\ RefAt(line, i).end > 0
       THEN Scan(line, detect, RefAt(line, i).end + 1, <<>>,
                 Append(Flush(acc, run),
                        [type |-> "DISCORD_EMOJI", content |-> Str(RefAt(line, i).id)]))
  ELSE IF line[i] \in EmojiRegistry
       THEN Scan(line, detect, i + 1, <<>>,
                 Append(Flush(acc, run), [type |-> "EMOJI", content |-> line[i]]))
  ELSE Scan(line, detect, i + 1, Append(run, line[i]), acc)

\* ------------------------------------------------------------- fonts
\* size: font.size in quarter pixels; height: the font's line height in
\* pixels; adv: the advance width of one character in quarter pixels
Fonts == {
  [size |-> 26, height |-> 8, adv |-> 9],
  [size |-> 64, height |-> 18, adv |-> 11] }

\* helpers.get_font_size(font) / get_font_height(font)
get_font_size(f) == f.size
get_font_height(f) == f.height

\* font.getlength(s), in quarter pixels: adv quarter pixels for each character
getlength(f, s) == Len(s) * f.adv

\* int(x) for x held in units of 1/d: truncation toward zero
Trunc(a, d) == IF a >= 0 THEN a \div d ELSE -((-a) \div d)

\* ------------------------------------------------------------- floats
\* Python computes emoji_size * (height / width) in double precision: the
\* quotient is rounded to 53 significant bits, then the product is. The
\* operators below follow the two roundings with whole numbers.

\* the E with 2^E <= h / w < 2^(E + 1), for h > 0 and w > 0
RECURSIVE Log2Floor(_, _)
Log2Floor(h, w) ==
  IF h >= w
  THEN IF h < 2 * w THEN 0 ELSE 1 + Log2Floor(h, 2 * w)
  ELSE Log2Floor(2 * h, w) - 1

\* 2^n modulo w
RECURSIVE Pow2Mod(_, _)
Pow2Mod(n, w) == IF n = 0 THEN 1 % w ELSE (2 * Pow2Mod(n - 1, w)) % w

RECURSIVE IsPow2(_)
IsPow2(n) == n = 1 \/ (n % 2 = 0 /\ IsPow2(n \div 2))

\* int(e * (h / w)) for whole numbers e > 0, h > 0 and w > 0. When e * h / w
\* is no whole number the roundings are too small to reach the next whole
\* number. When it is a whole number N, the product is N exactly if h / w is
\* held exactly (r = 0), above N if the quotient was rounded up, and
\* N - e * r / (w * 2^s) if it was rounded down, which rounds back to N only
\* when it is no further from N than half the gap to the double below N.
IntOfProductPos(e, h, w) ==
  IF (e * h) % w # 0 THEN (e * h) \div w
  ELSE LET N == (e * h) \div w
           E == Log2Floor(h, w)
           r == ((h % w) * Pow2Mod(52 - E, w)) % w
           k == (IF IsPow2(N) THEN 2 ELSE 1) + E - Log2Floor(N, 1)
       IN IF r = 0 \/ 2 * r > w THEN N
          ELSE IF k >= 0
               THEN (IF e * r * (2 ^ k) <= w THEN N ELSE N - 1)
               ELSE (IF e * r <= w * (2 ^ (0 - k)) THEN N ELSE N - 1)

\* int(e * (h / w)) for every whole number e, h >= 0 and w > 0
IntOfProduct(e, h, w) ==
  IF e = 0 \/ h = 0 THEN 0
  ELSE IF e > 0 THEN IntOfProductPos(e, h, w)
  ELSE -IntOfProductPos(-e, h, w)


\* ------------------------------------------------------------- state
VARIABLES
  impl,                 \* "pilmoji" or "apilmoji": the package whose Pilmoji this is
  cache_on,             \* Pilmoji._cache
  font,                 \* the font argument of the render calls
  dirs,                 \* the subdirectories of cache_dir that exist
  disk,                 \* the files under cache_dir: <<subdirectory, stem>> -> bytes
  emoji_cache,          \* Pilmoji._emoji_cache: emoji -> bytes of the stream
  discord_emoji_cache,  \* Pilmoji._discord_emoji_cache: id -> bytes of the stream
  call,                 \* the render calls in progress: caller -> the frame of its call
  co,                   \* the coroutines that resolve one file: slot -> frame
  torn,                 \* close() or aclose() has been called on the renderer
  missed,               \* the files whose latest resolution, in a call that has
                        \* ended, returned None (where the calls are followed)
  tk                    \* a call of the tokenizer: its arguments and its result

vars == <<impl, cache_on, font, dirs, disk, emoji_cache, discord_emoji_cache, call,
          co, torn, missed, tk>>

config == <<impl, cache_on, font, dirs>>
caches == <<emoji_cache, discord_emoji_cache>>

Empty == [k \in {} |-> None]
Put(f, k, v) == [j \in DOMAIN f \cup {k} |-> IF j = k THEN v ELSE f[j]]
Get(f, k) == IF k \in DOMAIN f THEN f[k] ELSE None
Get0(f, k) == IF k \in DOMAIN f THEN f[k] ELSE 0

\* xy of the render calls
XY0 == <<10, 10>>

\* the cache files of an emoji and of a custom emoji
EmojiPath(emoji) == <<Style, emoji>>
DiscordPath(id) == <<"discord", StrOf(id)>>
Paths == {EmojiPath(EmojiNode.content), DiscordPath(IntOf(DiscordNode.content))}
ZeroCount == [p \in Paths |-> 0]

\* the URLs the sources download: <<host, path, query>>
EmojiUrl(emoji) == <<"emojicdn.elk.sh", "emoji", Style>>
DiscordUrl(id) == <<"cdn.discordapp.com", "emojis", StrOf(id)>>
LocalUrl(emj) == <<"emojicdn.elk.sh", emj, Style>>
NoUrl == <<"", "", "">>

Emojis == {EmojiNode.content}
Ids == {IntOf(DiscordNode.content)}

\* The render calls that can be in progress on the renderer at one time, and
\* the coroutines resolving a file: the tasks of the gather of each call
\* (which run on when the call has raised) and of download_all_emojis
Calls == {"c1", "c2"}
Owners == Calls \cup {"local"}
Slots == Owners \X Paths

\* the line_height argument left at its default, None
NotGiven == [given |-> FALSE, value |-> 0]

\* no call of the tokenizer
Untokenized == [line |-> <<>>, detect |-> FALSE, nodes |-> <<>>, done |-> FALSE]

\* The frame of a coroutine that has not been called. kind: "task" (a task
\* of a render call), "call" (a call of the source itself), "local" (a task
\* of download_all_emojis). cached: the stream came from the in-memory
\* cache; src: the source was called; hit: file_path.exists() was true;
\* sent: a download was issued, for url, and resp is how it ended; body: the
\* bytes downloaded; off: how many of them have reached the file.
Idle == [pc |-> "idle", kind |-> "task", path |-> <<"", "">>, cached |-> FALSE,
         src |-> 0, hit |-> FALSE, sent |-> 0, url |-> NoUrl, resp |-> NoResponse,
         body |-> None, off |-> 0, ret |-> None, exc |-> NoError]

Over(f) == f.pc \in {"returned", "raised"}
Running(f) == f.pc \notin {"idle", "returned", "raised"}

\* The frame of a caller that is in no render call. emoji_map, discord_map:
\* emoji_map (pilmoji) / emj_map (apilmoji) and discord_map (pilmoji), the
\* results of the finished tasks by key; resized: resized_emjs (apilmoji);
\* ops: the image operations of the call, in the order issued; err: the
\* exception the call raised; started: per file, the resolutions the call
\* began; held: the files whose stream in the maps is the object the
\* in-memory cache holds; closed: the files whose stream in the maps has
\* been closed; late: the call began after close() or aclose().
NoCall == [pc |-> "idle", ds |-> FALSE, lines |-> <<>>, line_height_arg |-> NotGiven,
           line_height |-> 0, y_diff |-> 0, emoji_map |-> Empty, discord_map |-> Empty,
           resized |-> Empty, ops |-> <<>>, err |-> NoError, started |-> ZeroCount,
           held |-> {}, closed |-> {}, late |-> FALSE]

\* The state after the constructors. HTTPBasedSource.__init__ makes cache_dir
\* and leaves what it holds: the subdirectories and the complete files that
\* earlier runs stored.
InitRenderer ==
  /\ impl \in {"pilmoji", "apilmoji"}
  /\ cache_on \in BOOLEAN
  /\ (impl = "apilmoji" => ~cache_on)
  /\ font \in Fonts
  /\ dirs \in SUBSET {Style, "discord"}
  /\ (impl = "apilmoji" => dirs = {Style, "discord"})
  /\ \E present \in SUBSET {p \in Paths : p[1] \in dirs} : disk \in [present -> Bodies]
  /\ emoji_cache = Empty
  /\ discord_emoji_cache = Empty
  /\ call = [c \in Calls |-> NoCall]
  /\ co = [t \in Slots |-> Idle]
  /\ torn = FALSE
  /\ missed = {}

Init ==
  /\ InitRenderer
  /\ tk = Untokenized

\* ------------------------------------------------------------- in-memory cache
IsEmojiPath(p) == p[1] = Style
CacheOf(p) == IF IsEmojiPath(p) THEN emoji_cache ELSE discord_emoji_cache
KeyOf(p) == IF IsEmojiPath(p) THEN p[2] ELSE IntOf(p[2])

\* if self._cache and emoji in self._emoji_cache
Lookup(cache, key) == cache_on /\ key \in DOMAIN cache

\* A renderer that stores every bitmap, whether caching is on or off
StoresAlways(bytesio) == bytesio # None

\* A renderer that stores whatever the source returned, None included
StoresMiss(bytesio) == cache_on

\* if bytesio := await self._source.get_emoji(emoji): if self._cache: a
\* stream is truthy whatever it holds, None is not
Stores(bytesio) == bytesio # None /\ cache_on

\* file_path.exists() of a source that never looks at the file
ExistsNever(path) == FALSE

\* file_path.exists()
Exists(path) == path \in DOMAIN disk

\* ------------------------------------------------------------- coroutines
\* What a finished task leaves in the frame of its call: the exception of
\* the first task to raise leaves the gather; the other tasks run on.
Raise(f, exc) ==
  [f EXCEPT !.pc = "raised", !.err = IF f.pc = "gather" THEN exc ELSE f.err]

\* The result of a task in the frame of its call
Deliver(f, p, r) ==
  IF r.pc = "raised" THEN Raise(f, r.exc)
  ELSE IF IsEmojiPath(p)
       THEN [f EXCEPT !.emoji_map = Put(f.emoji_map, KeyOf(p), r.ret)]
       ELSE [f EXCEPT !.discord_map = Put(f.discord_map, KeyOf(p), r.ret)]

\* The coroutine of the slot t is over, r being its last frame. A task of a
\* render call runs the rest of _get_emoji / _get_discord_emoji, which keeps
\* the stream in the in-memory cache, and hands its result to the gather; a
\* task of download_all_emojis leaves no result to anyone.
Return(t, r) ==
  LET p == r.path
      store == r.kind = "task" /\ r.pc = "returned" /\ ~r.cached /\ Stores(r.ret)
  IN /\ co' = [co EXCEPT ![t] = IF t[1] \in Calls THEN r ELSE Idle]
     /\ emoji_cache' =
          IF store /\ IsEmojiPath(p) THEN Put(emoji_cache, KeyOf(p), r.ret)
          ELSE emoji_cache
     /\ discord_emoji_cache' =
          IF store /\ ~IsEmojiPath(p) THEN Put(discord_emoji_cache, KeyOf(p), r.ret)
          ELSE discord_emoji_cache
     /\ call' = [c \in Calls |->
          IF r.kind = "task" /\ c = t[1]
          THEN LET f == Deliver(call[c], p, r)
               IN [f EXCEPT !.held = IF (store \/ r.cached) /\ r.ret # None
                                     THEN @ \cup {p} ELSE @]
          ELSE [call[c] EXCEPT !.held = IF store THEN @ \ {p} ELSE @]]

\* A task of the gather starts: _get_emoji / _get_discord_emoji up to its
\* first await. A key of the in-memory cache is returned at once; otherwise
\* the source is called, which tests file_path.exists() and opens the file
\* or sends the request.
TaskStart(t) ==
  /\ co[t].pc = "new"
  /\ LET p == co[t].path
     IN IF Lookup(CacheOf(p), KeyOf(p))
        THEN Return(t, [co[t] EXCEPT !.pc = "returned", !.cached = TRUE,
                                     !.ret = CacheOf(p)[KeyOf(p)]])
        ELSE /\ co' = [co EXCEPT ![t] =
                  IF Exists(p)
                  THEN [@ EXCEPT !.src = 1, !.hit = TRUE, !.pc = "read"]
                  ELSE [@ EXCEPT !.src = 1, !.sent = 1, !.pc = "download",
                                 !.url = IF IsEmojiPath(p) THEN EmojiUrl(KeyOf(p))
                                         ELSE DiscordUrl(KeyOf(p))]]
             /\ UNCHANGED <<caches, call>>
  /\ UNCHANGED <<config, disk, torn, missed, tk>>

\* EmojiCDNSource.get_emoji / get_discord_emoji called by itself, up to its
\* first await: file_path.exists()
GetCall(c, p) ==
  /\ call[c].pc = "idle"
  /\ co[<<c, p>>].pc = "idle"
  /\ co' = [co EXCEPT ![<<c, p>>] =
       IF Exists(p)
       THEN [Idle EXCEPT !.kind = "call", !.path = p, !.src = 1, !.hit = TRUE,
                         !.pc = "read"]
       ELSE [Idle EXCEPT !.kind = "call", !.path = p, !.src = 1, !.sent = 1,
                         !.pc = "download",
                         !.url = IF IsEmojiPath(p) THEN EmojiUrl(KeyOf(p))
                                 ELSE DiscordUrl(KeyOf(p))]]
  /\ UNCHANGED <<config, disk, caches, call, torn, missed, tk>>

\* LocalEmojiSource.download_all_emojis: the task download_emoji(client, emj)
\* up to its first await. The results of the tasks are gathered with
\* return_exceptions=True and dropped.
download_emoji(emj) ==
  LET p == EmojiPath(emj)
      t == <<"local", p>>
  IN /\ co[t].pc = "idle"
     /\ ~Exists(p)
     /\ co' = [co EXCEPT ![t] =
          [Idle EXCEPT !.kind = "local", !.path = p, !.src = 1, !.sent = 1,
                       !.pc = "download", !.url = LocalUrl(emj)]]
     /\ UNCHANGED <<config, disk, caches, call, torn, missed, tk>>

\* async with aopen(file_path, "rb") as f: BytesIO(await f.read()): the
\* bytes the file holds when it is read
GetRead(t) ==
  /\ co[t].pc = "read"
  /\ co' = [co EXCEPT ![t].ret = disk[co[t].path], ![t].pc = "resume"]
  /\ UNCHANGED <<config, disk, caches, call, torn, missed, tk>>

\* bytes = await self.download(url) ends in resp; an HTTPError is caught
\* and None returned (download_emoji catches nothing)
GetDownload(t, resp) ==
  /\ co[t].pc = "download"
  /\ IF resp.ok
     THEN /\ co' = [co EXCEPT ![t].resp = resp, ![t].body = resp.body, ![t].pc = "open"]
          /\ UNCHANGED <<caches, call>>
     ELSE IF IsHTTPError(resp.exc) /\ co[t].kind # "local"
          THEN Return(t, [co[t] EXCEPT !.resp = resp, !.ret = None, !.pc = "returned"])
          ELSE Return(t, [co[t] EXCEPT !.resp = resp, !.exc = resp.exc, !.pc = "raised"])
  /\ UNCHANGED <<config, disk, torn, missed, tk>>

\* async with aopen(file_path, "wb") as f: the file is created, or cut to
\* nothing; without its directory the open raises
GetOpen(t) ==
  /\ co[t].pc = "open"
  /\ IF co[t].path[1] \in dirs
     THEN /\ disk' = Put(disk, co[t].path, <<>>)
          /\ co' = [co EXCEPT ![t].pc = "write"]
          /\ UNCHANGED <<caches, call>>
     ELSE /\ Return(t, [co[t] EXCEPT !.exc = "FileNotFoundError", !.pc = "raised"])
          /\ UNCHANGED disk
  /\ UNCHANGED <<config, torn, missed, tk>>

\* The file after `data` is written at offset `off` of content `old`.
\* Writing nothing leaves the file as it is, whatever the offset; bytes
\* written beyond the end leave a gap that reads as zeros (the file was cut
\* by another open in between)
WriteAt(old, off, data) ==
  IF data = <<>> THEN old
  ELSE LET n == IF Len(old) > off + Len(data) THEN Len(old) ELSE off + Len(data)
       IN [i \in 1..n |->
             IF i > off /\ i <= off + Len(data) THEN data[i - off]
             ELSE IF i <= Len(old) THEN old[i] ELSE 0]

\* await f.write(bytes): the bytes go to the file's buffer; the first n of
\* them reach the file now
GetWrite(t, n) ==
  /\ co[t].pc = "write"
  /\ n \in 0..Len(co[t].body)
  /\ disk' = [disk EXCEPT ![co[t].path] = WriteAt(@, 0, SubSeq(co[t].body, 1, n))]
  /\ co' = [co EXCEPT ![t].off = n, ![t].pc = "close"]
  /\ UNCHANGED <<config, caches, call, torn, missed, tk>>

\* the end of the async with: the rest of the buffer reaches the file and
\* the file is closed
GetClose(t) ==
  /\ co[t].pc = "close"
  /\ disk' = [disk EXCEPT ![co[t].path] =
       WriteAt(@, co[t].off, SubSeq(co[t].body, co[t].off + 1, Len(co[t].body)))]
  /\ co' = [co EXCEPT ![t].ret = co[t].body, ![t].pc = "resume"]
  /\ UNCHANGED <<config, caches, call, torn, missed, tk>>

\* the coroutine runs on after its file is closed: return BytesIO(...)
GetReturn(t) ==
  /\ co[t].pc = "resume"
  /\ Return(t, [co[t] EXCEPT !.pc = "returned"])
  /\ UNCHANGED <<config, disk, torn, missed, tk>>

\* the caller of the source has the result; it can call again
GetDone(t) ==
  /\ co[t].kind = "call"
  /\ Over(co[t])
  /\ co' = [co EXCEPT ![t] = Idle]
  /\ UNCHANGED <<config, disk, caches, call, torn, missed, tk>>

\* ------------------------------------------------------------- render call
Positions(ls) == UNION {{<<i, j>> : j \in 1..Len(ls[i])} : i \in 1..Len(ls)}
At(ls, p) == ls[p[1]][p[2]]
OfType(ls, t) == {p \in Positions(ls) : At(ls, p).type = t}

\* emoji_set / discord_emoji_set of pilmoji, emj_set / ds_emj_set of apilmoji
emoji_set(ls) == {At(ls, p).content : p \in OfType(ls, "EMOJI")}
discord_emoji_set(ls) == {IntOf(At(ls, p).content) : p \in OfType(ls, "DISCORD_EMOJI")}
ds_emj_set(ls) == {At(ls, p).content : p \in OfType(ls, "DISCORD_EMOJI")}

\* Tasks made from the list of nodes instead of the set: one coroutine for
\* each node that references the emoji
emoji_tasks_per_node(ls) ==
  [k \in emoji_set(ls) |-> Cardinality({p \in OfType(ls, "EMOJI") : At(ls, p).content = k})]

\* emoji_tasks / discord_tasks: one coroutine for each member of the set
emoji_tasks(ls) == [k \in emoji_set(ls) |-> 1]
discord_tasks(ls) == [k \in discord_emoji_set(ls) |-> 1]

\* the tasks of the caller c have all finished
NoTasks(c) == \A p \in Paths : ~Running(co[<<c, p>>])

\* ------------------------------------------------------------- drawing
\* An image operation: Image.open and resize of a bitmap ("decode"; w and h
\* are the size decoded, 0 when the bytes are no image), draw.text ("text"),
\* image.paste ("paste"; w and h are the size of the bitmap pasted). line and
\* node say which node the loop stood at (0: none); cur is cur_x when the
\* node was reached and adv is what the node adds to cur_x.
Ev(o, i, j, x0, y0, t, w0, h0, c, a) ==
  [op |-> o, line |-> i, node |-> j, x |-> x0, y |-> y0, text |-> t,
   w |-> w0, h |-> h0, cur |-> c, adv |-> a]

DecodeEv(i, j, t, b) ==
  IF Decodable(b)
  THEN Ev("decode", i, j, 0, 0, t, Decode(b).width, Decode(b).height, 0, 0)
  ELSE Ev("decode", i, j, 0, 0, t, 0, 0, 0, 0)

\* A _render_text that rounds the measured width up instead of cutting it
_render_text_ceil(i, j, x0, y0, content) ==
  LET width == (getlength(font, content) + 3) \div 4
  IN [evs |-> <<Ev("text", i, j, x0, y0, content, 0, 0, x0, width)>>, ret |-> width]

\* Pilmoji._render_text: the operation and the width returned
_render_text(i, j, x0, y0, content) ==
  LET width == Trunc(getlength(font, content), 4)
  IN [evs |-> <<Ev("text", i, j, x0, y0, content, 0, 0, x0, width)>>, ret |-> width]

\* A resize whose height is rounded to the nearest pixel
ResizeRounded(b, emoji_size) ==
  [w |-> emoji_size,
   h |-> (2 * emoji_size * Decode(b).height + Decode(b).width) \div (2 * Decode(b).width)]

\* The bitmap resize gives for a picture decoded from b: (emoji_size,
\* int(emoji_size * aspect_ratio)), aspect_ratio being the float
\* height / width
Resize(b, emoji_size) ==
  [w |-> emoji_size,
   h |-> IntOfProduct(emoji_size, Decode(b).height, Decode(b).width)]

\* A _render_emoji that returns the size asked for instead of the size pasted
_render_emoji_returns_size(i, j, x0, y0, content, bytesio, isclosed, size) ==
  IF isclosed
  THEN [exc |-> "ValueError", evs |-> <<>>, ret |-> 0]
  ELSE IF Decodable(bytesio)
  THEN LET emoji_size == Trunc(size, 4) - EMOJI_PADDING
           img == Resize(bytesio, emoji_size)
       IN [exc |-> NoError,
           evs |-> <<DecodeEv(i, j, content, bytesio),
                     Ev("paste", i, j, x0, y0, content, img.w, img.h, x0, Trunc(size, 4))>>,
           ret |-> Trunc(size, 4)]
  ELSE [exc |-> "UnidentifiedImageError",
        evs |-> <<DecodeEv(i, j, content, bytesio)>>, ret |-> 0]

\* Pilmoji._render_emoji of pilmoji: the operations, the width returned, and
\* the exception raised. bytesio.seek(0) raises ValueError on a stream that
\* close() has closed; Image.open raises on bytes that are no image.
_render_emoji(i, j, x0, y0, content, bytesio, isclosed, size) ==
  IF isclosed
  THEN [exc |-> "ValueError", evs |-> <<>>, ret |-> 0]
  ELSE IF Decodable(bytesio)
  THEN LET emoji_size == Trunc(size, 4) - EMOJI_PADDING
           img == Resize(bytesio, emoji_size)
       IN [exc |-> NoError,
           evs |-> <<DecodeEv(i, j, content, bytesio),
                     Ev("paste", i, j, x0, y0, content, img.w, img.h, x0, emoji_size)>>,
           ret |-> emoji_size]
  ELSE [exc |-> "UnidentifiedImageError",
        evs |-> <<DecodeEv(i, j, content, bytesio)>>, ret |-> 0]

\* the file of the emoji or custom emoji a node references
NodePath(node) ==
  IF node.type = "EMOJI" THEN EmojiPath(node.content)
  ELSE DiscordPath(IntOf(node.content))

\* the stream and the fallback text of a node in pilmoji's loops, in the
\* call of frame f
PStream(f, node) ==
  IF node.type = "EMOJI" THEN Get(f.emoji_map, node.content)
  ELSE IF f.ds /\ node.type = "DISCORD_EMOJI" THEN Get(f.discord_map, IntOf(node.content))
  ELSE None
PFallback(f, node) ==
  IF f.ds /\ node.type = "DISCORD_EMOJI" /\ PStream(f, node) = None
  THEN "[:" \o node.content \o ":]"
  ELSE node.content

\* Loops that give up the rest of a line at the first emoji that resolved
\* to nothing
RECURSIVE PLoopStopsAtMiss(_, _, _, _, _, _, _, _)
PLoopStopsAtMiss(f, i, j, cx, cy, yd, lh, acc) ==
  IF i > Len(f.lines) THEN [ops |-> acc, err |-> NoError]
  ELSE IF j > Len(f.lines[i]) THEN PLoopStopsAtMiss(f, i + 1, 1, XY0[1], cy + lh, yd, lh, acc)
  ELSE LET node == f.lines[i][j]
           stream == PStream(f, node)
       IN IF stream # None
          THEN LET r == _render_emoji(i, j, cx, cy + yd, node.content, stream,
                                      NodePath(node) \in f.closed, get_font_size(font))
               IN IF r.exc # NoError
                  THEN [ops |-> acc \o r.evs, err |-> r.exc]
                  ELSE PLoopStopsAtMiss(f, i, j + 1, cx + r.ret, cy, yd, lh, acc \o r.evs)
          ELSE IF node.type # "TEXT"
               THEN PLoopStopsAtMiss(f, i + 1, 1, XY0[1], cy + lh, yd, lh, acc)
               ELSE LET r == _render_text(i, j, cx, cy, PFallback(f, node))
                    IN PLoopStopsAtMiss(f, i, j + 1, cx + r.ret, cy, yd, lh, acc \o r.evs)

\* The loops over lines and nodes of pilmoji's text / text_with_discord_emoji,
\* from node j of line i with the cursor at (cx, cy)
RECURSIVE PLoop(_, _, _, _, _, _, _, _)
PLoop(f, i, j, cx, cy, yd, lh, acc) ==
  IF i > Len(f.lines) THEN [ops |-> acc, err |-> NoError]
  ELSE IF j > Len(f.lines[i]) THEN PLoop(f, i + 1, 1, XY0[1], cy + lh, yd, lh, acc)
  ELSE LET node == f.lines[i][j]
           stream == PStream(f, node)
       IN IF stream # None
          THEN LET r == _render_emoji(i, j, cx, cy + yd, node.content, stream,
                                      NodePath(node) \in f.closed, get_font_size(font))
               IN IF r.exc # NoError
                  THEN [ops |-> acc \o r.evs, err |-> r.exc]
                  ELSE PLoop(f, i, j + 1, cx + r.ret, cy, yd, lh, acc \o r.evs)
          ELSE LET r == _render_text(i, j, cx, cy, PFallback(f, node))
               IN PLoop(f, i, j + 1, cx + r.ret, cy, yd, lh, acc \o r.evs)

\* A y_diff rounded down: (line_height - font_size) // 2
YDiffFloor(lh, size) == (4 * lh - size) \div 8

\* int((line_height - font_size) / 2)
YDiff(lh, size) == Trunc(4 * lh - size, 8)

\* pilmoji: the frame after text / text_with_discord_emoji has run from the
\* return of the gather to its end; nothing in it awaits
Drawn(f) ==
  LET lh == get_font_height(font)
      yd == YDiff(lh, get_font_size(font))
      r == PLoop(f, 1, 1, XY0[1], XY0[2], yd, lh, <<>>)
  IN [f EXCEPT !.line_height = lh, !.y_diff = yd, !.ops = r.ops, !.err = r.err,
               !.pc = IF r.err = NoError THEN "done" ELSE "raised"]

\* pilmoji: text (d = FALSE) and text_with_discord_emoji (d = TRUE) on the
\* parsed lines ls, from the entry to the await of the gather. A gather of
\* no task is done when it is awaited, and the call runs to its end.
PText(c, d, ls) ==
  /\ impl = "pilmoji"
  /\ call[c].pc = "idle"
  /\ \A p \in Paths : co[<<c, p>>].pc = "idle"
  /\ LET et == emoji_tasks(ls)
         dt == IF d THEN discord_tasks(ls) ELSE Empty
         n == [p \in Paths |-> IF IsEmojiPath(p) THEN Get0(et, KeyOf(p))
                               ELSE Get0(dt, KeyOf(p))]
         f == [NoCall EXCEPT !.pc = "gather", !.ds = d, !.lines = ls, !.started = n,
                             !.late = torn]
     IN /\ call' = [call EXCEPT ![c] = IF \A p \in Paths : n[p] = 0 THEN Drawn(f) ELSE f]
        /\ co' = [t \in Slots |->
             IF t[1] = c /\ n[t[2]] > 0
             THEN [Idle EXCEPT !.pc = "new", !.path = t[2]]
             ELSE co[t]]
  /\ UNCHANGED <<config, disk, caches, torn, missed, tk>>

\* pilmoji: the gather has returned the results of all tasks, and the call
\* draws
PDraw(c) ==
  /\ impl = "pilmoji"
  /\ call[c].pc = "gather"
  /\ NoTasks(c)
  /\ call' = [call EXCEPT ![c] = Drawn(call[c])]
  /\ UNCHANGED <<config, disk, caches, co, torn, missed, tk>>

\* The call c is over (it returned or raised, and the tasks of its gather
\* have finished): its locals are dropped
LeaveCall(c) ==
  /\ call[c].pc \in {"done", "raised"}
  /\ NoTasks(c)
  /\ call' = [call EXCEPT ![c] = NoCall]
  /\ co' = [t \in Slots |-> IF t[1] = c THEN Idle ELSE co[t]]
  /\ UNCHANGED <<config, disk, caches, torn, tk>>

Leave(c) == LeaveCall(c) /\ UNCHANGED missed

\* the files whose resolution in the call of frame f returned None
NoBitmap(f) ==
  {EmojiPath(k) : k \in {j \in DOMAIN f.emoji_map : f.emoji_map[j] = None}}
    \cup {DiscordPath(k) : k \in {j \in DOMAIN f.discord_map : f.discord_map[j] = None}}

\* the files the call of frame f has resolved to a bitmap
GotBitmap(f) ==
  {EmojiPath(k) : k \in {j \in DOMAIN f.emoji_map : f.emoji_map[j] # None}}
    \cup {DiscordPath(k) : k \in {j \in DOMAIN f.discord_map : f.discord_map[j] # None}}

\* The end of a call on a renderer whose calls are followed from one to the
\* next: what the call could not resolve is kept for the calls after it
LeaveNoted(c) ==
  /\ LeaveCall(c)
  /\ missed' = (missed \ GotBitmap(call[c])) \cup NoBitmap(call[c])

\* Pilmoji.close of pilmoji, whenever it is called: with caching on, every
\* stream the caches hold is closed and both caches start empty; the calls
\* that hold one of these streams hold a closed stream
Close ==
  /\ impl = "pilmoji"
  /\ IF cache_on
     THEN /\ emoji_cache' = Empty
          /\ discord_emoji_cache' = Empty
          /\ call' = [c \in Calls |->
               [call[c] EXCEPT !.closed = @ \cup call[c].held, !.held = {}]]
     ELSE UNCHANGED <<caches, call>>
  /\ torn' = TRUE
  /\ UNCHANGED <<config, disk, co, missed, tk>>

\* Pilmoji.aclose of pilmoji, and __aexit__, which calls it: the source has no
\* aclose, so the call raises AttributeError; the client stays open and the
\* caches stay as they are
aclose ==
  /\ impl = "pilmoji"
  /\ torn' = TRUE
  /\ UNCHANGED <<config, disk, caches, call, co, missed, tk>>

\* ------------------------------------------------------------- apilmoji
\* the line_height argument: not given (None), or an integer
Overrides == {NotGiven} \cup [given : {TRUE}, value : {0, 6, 20}]

\* line_height or helper.get_font_height(font)
LineHeightOr(o) == IF o.given /\ o.value # 0 THEN o.value ELSE get_font_height(font)

\* helper.contains_emoji(lines, support_ds_emj)
contains_emoji(ls) == OfType(ls, "EMOJI") \cup OfType(ls, "DISCORD_EMOJI") # {}

\* the string a line of nodes was parsed from, when no node is an emoji
RECURSIVE LineText(_)
LineText(nodes) ==
  IF nodes = <<>> THEN "" ELSE nodes[1].content \o LineText(Tail(nodes))

\* the loop that draws the lines ls when none holds an emoji
RECURSIVE PlainLoop(_, _, _, _, _)
PlainLoop(ls, i, cy, lh, acc) ==
  IF i > Len(ls) THEN acc
  ELSE PlainLoop(ls, i + 1, cy + lh, lh,
                 Append(acc, Ev("text", i, 0, XY0[1], cy, LineText(ls[i]), 0, 0,
                                XY0[1], 0)))

\* apilmoji: text from its entry to the await of fetch_emojis, or to its
\* return when no line holds an emoji
AText(c, d, ls, o) ==
  /\ impl = "apilmoji"
  /\ call[c].pc = "idle"
  /\ \A p \in Paths : co[<<c, p>>].pc = "idle"
  /\ LET f == [NoCall EXCEPT !.ds = d, !.lines = ls, !.line_height_arg = o,
                             !.late = torn]
         lh == LineHeightOr(o)
     IN call' = [call EXCEPT ![c] =
          IF ls = <<>> THEN [f EXCEPT !.pc = "done"]
          ELSE IF ~contains_emoji(ls)
               THEN [f EXCEPT !.pc = "done", !.line_height = lh,
                              !.ops = PlainLoop(ls, 1, XY0[2], lh, <<>>)]
               ELSE [f EXCEPT !.pc = "fetch", !.line_height = lh,
                              !.started = [p \in Paths |->
                                 IF IsEmojiPath(p)
                                 THEN IF p[2] \in emoji_set(ls) THEN 1 ELSE 0
                                 ELSE IF p[2] \in ds_emj_set(ls) THEN 1 ELSE 0]]]
  /\ UNCHANGED <<config, disk, caches, co, torn, missed, tk>>

\* The resolver of apilmoji's source for one file, the download ending in
\* resp: the disk cache, then the network; a success is stored, a failure
\* is a miss
Resolve(path, resp) ==
  IF path \in DOMAIN disk THEN [ret |-> disk[path], fetched |-> 0]
  ELSE IF resp.ok THEN [ret |-> resp.body, fetched |-> 1]
  ELSE [ret |-> None, fetched |-> 1]

\* EmojiCDNSource.fetch_emojis(emj_set, ds_emj_set) of apilmoji, the
\* downloads ending in rs
AFetchEmojis(c, rs) ==
  /\ impl = "apilmoji"
  /\ call[c].pc = "fetch"
  /\ LET f == call[c]
         wanted == {p \in Paths : f.started[p] > 0}
         res == [p \in wanted |-> Resolve(p, rs[p])]
         got == {p \in wanted : res[p].fetched = 1}
     IN /\ DOMAIN rs = wanted
        /\ call' = [call EXCEPT ![c] =
             [f EXCEPT !.pc = "fetched",
                       !.emoji_map = [k \in {p[2] : p \in wanted} |->
                          res[CHOOSE p \in wanted : p[2] = k].ret]]]
        /\ disk' = [p \in DOMAIN disk \cup {q \in got : res[q].ret # None} |->
             IF p \in DOMAIN disk THEN disk[p] ELSE res[p].ret]
        /\ co' = [t \in Slots |->
             IF t[1] = c /\ t[2] \in wanted
             THEN [Idle EXCEPT !.pc = "returned", !.path = t[2], !.src = 1,
                               !.hit = t[2] \notin got,
                               !.sent = res[t[2]].fetched,
                               !.url = IF t[2] \notin got THEN NoUrl
                                       ELSE IF IsEmojiPath(t[2]) THEN EmojiUrl(t[2][2])
                                       ELSE DiscordUrl(IntOf(t[2][2])),
                               !.resp = IF t[2] \in got THEN rs[t[2]] ELSE NoResponse,
                               !.ret = res[t[2]].ret]
             ELSE co[t]]
  /\ UNCHANGED <<config, caches, torn, missed, tk>>

\* Pilmoji._resize_emoji of apilmoji
_resize_emoji(bytesio, size) == Resize(bytesio, Trunc(size, 4) - ResizeMargin)

\* The orders in which a dict of the keys S can be walked
Orders(S) == {o \in [1..Cardinality(S) -> S] : \A a, b \in DOMAIN o : o[a] = o[b] => a = b}

\* resized_emjs: the bitmaps of emj_map m are resized in its order, up to
\* the first that is no image
RECURSIVE PreResize(_, _, _, _)
PreResize(m, order, n, acc) ==
  IF n > Len(order) THEN [ops |-> acc, err |-> NoError]
  ELSE IF Decodable(m[order[n]])
       THEN PreResize(m, order, n + 1, Append(acc, DecodeEv(0, 0, order[n], m[order[n]])))
       ELSE [ops |-> Append(acc, DecodeEv(0, 0, order[n], m[order[n]])),
             err |-> "UnidentifiedImageError"]

\* The loops over lines and nodes of apilmoji's text, in the call of frame f
RECURSIVE ALoop(_, _, _, _, _, _, _, _)
ALoop(f, i, j, cx, cy, yd, lh, acc) ==
  IF i > Len(f.lines) THEN acc
  ELSE IF j > Len(f.lines[i]) THEN ALoop(f, i + 1, 1, XY0[1], cy + lh, yd, lh, acc)
  ELSE LET node == f.lines[i][j]
           size == get_font_size(font)
       IN IF node.type \in {"EMOJI", "DISCORD_EMOJI"} /\ node.content \in DOMAIN f.resized
          THEN LET emj_img == f.resized[node.content]
               IN ALoop(f, i, j + 1, cx + Trunc(size, 4), cy, yd, lh,
                        Append(acc, Ev("paste", i, j, cx + 1, cy + yd, node.content,
                                       emj_img.w, emj_img.h, cx, Trunc(size, 4))))
          ELSE LET width == Trunc(getlength(font, node.content), 4)
               IN ALoop(f, i, j + 1, cx + width, cy, yd, lh,
                        Append(acc, Ev("text", i, j, cx, cy, node.content, 0, 0, cx, width)))

\* apilmoji: text from the return of fetch_emojis to the end, emj_map being
\* walked in the given order; nothing in it awaits
ADraw(c, order) ==
  /\ impl = "apilmoji"
  /\ call[c].pc = "fetched"
  /\ LET f == call[c]
         yd == YDiff(f.line_height, get_font_size(font))
         truthy == {k \in DOMAIN f.emoji_map : f.emoji_map[k] # None}
         pre == PreResize(f.emoji_map, order, 1, <<>>)
         g == [f EXCEPT !.y_diff = yd,
                        !.resized = [k \in truthy |->
                           _resize_emoji(f.emoji_map[k], get_font_size(font))]]
     IN /\ order \in Orders(truthy)
        /\ call' = [call EXCEPT ![c] =
             IF pre.err # NoError
             THEN [f EXCEPT !.y_diff = yd, !.ops = pre.ops, !.err = pre.err,
                            !.pc = "raised"]
             ELSE [g EXCEPT !.ops = ALoop(g, 1, 1, XY0[1], XY0[2], yd, f.line_height,
                                          pre.ops),
                            !.pc = "done"]]
  /\ UNCHANGED <<config, disk, caches, co, torn, missed, tk>>

\* ------------------------------------------------------------- the renderer
\* The render calls follow one another; close() and aclose() come at any
\* time.
Caller == "c1"

\* the longest body
MaxBody == Len(PngTall)

Next ==
  \/ \E d \in BOOLEAN : \E ls \in LineLists(d) : PText(Caller, d, ls)
  \/ \E t \in Slots : TaskStart(t)
  \/ \E t \in Slots : GetRead(t)
  \/ \E t \in Slots : \E resp \in Responses : GetDownload(t, resp)
  \/ \E t \in Slots : GetOpen(t)
  \/ \E t \in Slots : \E n \in 0..MaxBody : GetWrite(t, n)
  \/ \E t \in Slots : GetClose(t)
  \/ \E t \in Slots : GetReturn(t)
  \/ PDraw(Caller)
  \/ Leave(Caller)
  \/ Close
  \/ aclose
  \/ \E d \in BOOLEAN : \E ls \in LineLists(d) : \E o \in Overrides : AText(Caller, d, ls, o)
  \/ \E rs \in UNION {[S -> Responses] : S \in SUBSET Paths} : AFetchEmojis(Caller, rs)
  \/ \E order \in UNION {Orders(S) : S \in SUBSET (Emojis \cup {DiscordNode.content})} :
       ADraw(Caller, order)

Spec == Init /\ [][Next]_vars

\* ------------------------------------------------------------- properties of a render call
\* the file p is the file of an emoji or custom emoji some node of the call
\* c references
Referenced(c, p) ==
  IF IsEmojiPath(p)
  THEN p[2] \in emoji_set(call[c].lines)
  ELSE call[c].ds /\ p[2] \in {StrOf(IntOf(k)) : k \in ds_emj_set(call[c].lines)}

\* the call c holds a result for the file p, and the result it holds:
\* emoji_map[emoji] / discord_map[id] of pilmoji, emj_map[content] of apilmoji
Resolved(c, p) ==
  IF impl = "pilmoji" /\ ~IsEmojiPath(p)
  THEN IntOf(p[2]) \in DOMAIN call[c].discord_map
  ELSE p[2] \in DOMAIN call[c].emoji_map
ResultOf(c, p) ==
  IF impl = "pilmoji" /\ ~IsEmojiPath(p)
  THEN call[c].discord_map[IntOf(p[2])]
  ELSE call[c].emoji_map[p[2]]

\* per file, for the call c: the calls of the source, the downloads issued,
\* and how the download ended
src_calls(c, p) == co[<<c, p>>].src
fetches(c, p) == co[<<c, p>>].sent
net(c, p) == co[<<c, p>>].resp

DrawOps == {"text", "paste"}

\* C1: within one render call, the resolution of every emoji key the lines
\* reference (once or many times) is started exactly once, the resolution
\* of a key they do not reference is not started, and the call calls the
\* source at most once and downloads at most once for each key.
C1_OneResolutionPerKey ==
  \A c \in Calls : \A p \in Paths :
    /\ call[c].started[p] <= 1
    /\ src_calls(c, p) <= call[c].started[p]
    /\ fetches(c, p) <= src_calls(c, p)
    /\ (call[c].pc # "idle" => (call[c].started[p] = 1 <=> Referenced(c, p)))

\* C1 witness: a finished call whose lines reference one emoji from two nodes,
\* and which downloaded it once
C1_Witness ==
  \E c \in Calls :
    /\ call[c].pc = "done"
    /\ \E a, b \in OfType(call[c].lines, "EMOJI") :
         /\ a # b
         /\ At(call[c].lines, a).content = At(call[c].lines, b).content
         /\ fetches(c, EmojiPath(At(call[c].lines, a).content)) = 1

\* C2: in every render call, all resolution and all decoding and resizing
\* of bitmaps is over before the first text is drawn or bitmap pasted: no
\* decode follows a draw, and nothing is drawn while a resolution is pending.
C2_PreparedBeforeDrawn ==
  \A c \in Calls :
    /\ \A a, b \in DOMAIN call[c].ops :
         (a < b /\ call[c].ops[a].op \in DrawOps) => call[c].ops[b].op # "decode"
    /\ (~NoTasks(c) => call[c].ops = <<>>)

\* some key of the call c resolved to bytes that are no image
SomeUndecodable(c) ==
  \/ \E k \in DOMAIN call[c].emoji_map :
       call[c].emoji_map[k] # None /\ ~Decodable(call[c].emoji_map[k])
  \/ \E k \in DOMAIN call[c].discord_map :
       call[c].discord_map[k] # None /\ ~Decodable(call[c].discord_map[k])

\* C3: when the bytes resolved for a key of the call are no decodable image,
\* the call raises the decode error and has drawn nothing: no text and no
\* bitmap, for any line. (A call that ended in the FileNotFoundError of a
\* failed store, or in the ValueError of a closed stream, is left aside.)
C3_UndecodableDrawsNothing ==
  \A c \in Calls :
    ( /\ call[c].pc \in {"done", "raised"}
      /\ NoTasks(c)
      /\ call[c].err \notin {"FileNotFoundError", "ValueError"}
      /\ SomeUndecodable(c) )
    => /\ call[c].pc = "raised"
       /\ call[c].err = "UnidentifiedImageError"
       /\ \A n \in DOMAIN call[c].ops : call[c].ops[n].op \notin DrawOps

\* C4: when the download for a key fails (error status, timeout, refused
\* connection), the key resolves to None, the failure is not raised to the
\* call, no file is stored for the key, and the key is downloaded once only.
C4_FetchFailureIsAMiss ==
  \A c \in Calls : \A p \in Paths :
    net(c, p).exc \in TransportErrors
      => /\ Resolved(c, p)
         /\ ResultOf(c, p) = None
         /\ call[c].err \notin TransportErrors
         /\ p \notin DOMAIN disk
         /\ fetches(c, p) = 1

\* C4 witness: a call of pilmoji that returned although the download of one
\* of its keys timed out
C4_Witness ==
  \E c \in Calls :
    /\ impl = "pilmoji"
    /\ call[c].pc = "done"
    /\ \E p \in Paths :
         /\ net(c, p).exc = "ConnectTimeout"
         /\ Resolved(c, p)
         /\ ResultOf(c, p) = None

\* C5: a get_emoji / get_discord_emoji whose download succeeds returns the
\* bytes downloaded and leaves them in the file of the key.
C5_SuccessIsStored ==
  \A c \in Calls : \A p \in Paths :
    (net(c, p).ok /\ ~Running(co[<<c, p>>]))
      => /\ Resolved(c, p)
         /\ ResultOf(c, p) = net(c, p).body
         /\ p \in DOMAIN disk
         /\ disk[p] = net(c, p).body

\* C6: a get_emoji / get_discord_emoji that finds the file of its key in the
\* disk cache downloads nothing and returns the bytes of the file, which
\* are the complete bytes that were stored; and a file once stored is never
\* changed by later resolutions.
C6_DiskHitIsIdempotent ==
  [][ /\ \A c \in Calls : \A p \in Paths :
           /\ (src_calls(c, p) = 0 /\ src_calls(c, p)' = 1 /\ p \in DOMAIN disk)
                => (co'[<<c, p>>].hit /\ fetches(c, p)' = 0)
           /\ (co'[<<c, p>>].hit /\ co'[<<c, p>>].pc = "returned")
                => /\ fetches(c, p)' = 0
                   /\ net(c, p)' = NoResponse
                   /\ p \in DOMAIN disk'
                   /\ co'[<<c, p>>].ret = disk'[p]
                   /\ co'[<<c, p>>].ret \in Bodies
                   /\ Resolved(c, p)'
                   /\ ResultOf(c, p)' = disk'[p]
      /\ \A p \in DOMAIN disk :
           disk[p] \in Bodies => (p \in DOMAIN disk' /\ disk'[p] = disk[p])
    ]_vars

\* C6 witness: a call of pilmoji without the in-memory cache resolved a key
\* from its file without a download
C6_Witness ==
  \E c \in Calls :
    /\ impl = "pilmoji"
    /\ ~cache_on
    /\ call[c].pc = "done"
    /\ \E p \in Paths :
         /\ co[<<c, p>>].hit
         /\ src_calls(c, p) = 1
         /\ fetches(c, p) = 0
         /\ p \in DOMAIN disk
         /\ Resolved(c, p)
         /\ ResultOf(c, p) = disk[p]

\* a step of close() on a renderer with the in-memory cache
Closes ==
  /\ emoji_cache' = Empty
  /\ discord_emoji_cache' = Empty
  /\ torn'
  /\ UNCHANGED <<co, disk>>
  /\ \A c \in Calls : call'[c].pc = call[c].pc

\* C7: on a renderer with in-memory caching, a key that resolved to a
\* bitmap stays in the cache with that bitmap until close(), and a
\* resolution of a cached key returns the cached bitmap without calling the
\* source (no disk lookup, no download).
C7_MemoryCacheShortCircuits ==
  [][ cache_on =>
        /\ ~Closes =>
             /\ \A k \in DOMAIN emoji_cache :
                  Decodable(emoji_cache[k])
                    => (k \in DOMAIN emoji_cache' /\ emoji_cache'[k] = emoji_cache[k])
             /\ \A k \in DOMAIN discord_emoji_cache :
                  Decodable(discord_emoji_cache[k])
                    => /\ k \in DOMAIN discord_emoji_cache'
                       /\ discord_emoji_cache'[k] = discord_emoji_cache[k]
        /\ \A c \in Calls : \A p \in Paths :
             (co[<<c, p>>].pc = "new" /\ KeyOf(p) \in DOMAIN CacheOf(p)
                /\ co'[<<c, p>>].pc # "new")
               => /\ co'[<<c, p>>].pc = "returned"
                  /\ co'[<<c, p>>].ret = CacheOf(p)[KeyOf(p)]
                  /\ src_calls(c, p)' = 0
                  /\ fetches(c, p)' = 0
                  /\ disk' = disk
    ]_vars

\* the image operations of the call c that move the cursor: the text drawn
\* and the bitmap pasted for a node of a line
Moves(c) ==
  {n \in DOMAIN call[c].ops : call[c].ops[n].op \in DrawOps /\ call[c].ops[n].node > 0}

\* C9 as claimed: a node rendered as a resolved emoji advances the cursor by
\* the width of the bitmap pasted
C9_AdvanceIsPastedWidth ==
  \A c \in Calls : \A n \in DOMAIN call[c].ops :
    call[c].ops[n].op = "paste" => call[c].ops[n].adv = call[c].ops[n].w

\* C9, amended: pilmoji advances the cursor by the width of the bitmap it
\* pasted, int(font size) - EMOJI_PADDING, and pastes it at the cursor;
\* apilmoji advances it by int(font size), two more than the width of the
\* bitmap it pasted one pixel to the right of the cursor. The next node of
\* the line starts where the advance ends.
C9_AdvanceByVersion ==
  \A c \in Calls :
    LET ops == call[c].ops
    IN /\ \A n \in DOMAIN ops :
            ops[n].op = "paste" =>
              IF impl = "pilmoji"
              THEN /\ ops[n].w = Trunc(get_font_size(font), 4) - EMOJI_PADDING
                   /\ ops[n].adv = ops[n].w
                   /\ ops[n].x = ops[n].cur
              ELSE /\ ops[n].w = Trunc(get_font_size(font), 4) - ResizeMargin
                   /\ ops[n].adv = Trunc(get_font_size(font), 4)
                   /\ ops[n].adv = ops[n].w + 2
                   /\ ops[n].x = ops[n].cur + 1
       /\ \A m, n \in Moves(c) :
            (ops[m].op = "paste" /\ ops[n].line = ops[m].line /\ ops[n].node = ops[m].node + 1)
              => ops[n].cur = ops[m].cur + ops[m].adv

\* C9 witness: a call has pasted an emoji that another node follows
C9_Witness ==
  \E c \in Calls :
    /\ call[c].pc = "done"
    /\ \E m, n \in Moves(c) :
         /\ call[c].ops[m].op = "paste"
         /\ call[c].ops[n].line = call[c].ops[m].line
         /\ call[c].ops[n].node = call[c].ops[m].node + 1

\* the lines of only TEXT nodes that the call c drew node by node
TextOnlyLines(c) ==
  {i \in 1..Len(call[c].lines) :
     /\ Len(call[c].lines[i]) > 0
     /\ \A j \in 1..Len(call[c].lines[i]) : call[c].lines[i][j].type = "TEXT"
     /\ \E n \in Moves(c) : call[c].ops[n].line = i}

\* the sum over the nodes of a line of the measured widths, in quarter
\* pixels, and of the widths cut to whole pixels
RECURSIVE MeasuredSum(_)
MeasuredSum(nodes) ==
  IF nodes = <<>> THEN 0 ELSE getlength(font, nodes[1].content) + MeasuredSum(Tail(nodes))
RECURSIVE TruncatedSum(_)
TruncatedSum(nodes) ==
  IF nodes = <<>> THEN 0
  ELSE Trunc(getlength(font, nodes[1].content), 4) + TruncatedSum(Tail(nodes))

\* the cursor x of the call c after the last node of line i
FinalX(c, i) ==
  LET n == CHOOSE m \in Moves(c) :
             call[c].ops[m].line = i /\ call[c].ops[m].node = Len(call[c].lines[i])
  IN call[c].ops[n].cur + call[c].ops[n].adv

\* C10 as claimed: after a line of only TEXT nodes the cursor x is x0 plus
\* the sum of the measured widths, fractional or not
C10_FinalXIsMeasuredSum ==
  \A c \in Calls :
    call[c].pc = "done" =>
      \A i \in TextOnlyLines(c) :
        4 * FinalX(c, i) = 4 * XY0[1] + MeasuredSum(call[c].lines[i])

\* C10, amended: after a line of only TEXT nodes the cursor x is x0 plus
\* the sum of the measured widths each cut to a whole number of pixels
\* (int(font.getlength(content))), which is less than the sum of the
\* measured widths by under one pixel for each node.
C10_FinalXIsTruncatedSum ==
  \A c \in Calls :
    call[c].pc = "done" =>
      \A i \in TextOnlyLines(c) :
        /\ FinalX(c, i) = XY0[1] + TruncatedSum(call[c].lines[i])
        /\ 4 * FinalX(c, i) <= 4 * XY0[1] + MeasuredSum(call[c].lines[i])
        /\ 4 * FinalX(c, i) > 4 * XY0[1] + MeasuredSum(call[c].lines[i])
                                - 4 * Len(call[c].lines[i])

\* C10 witness: a line of only TEXT nodes was drawn whose measured width is
\* no whole number of pixels
C10_Witness ==
  \E c \in Calls :
    /\ call[c].pc = "done"
    /\ \E i \in TextOnlyLines(c) : MeasuredSum(call[c].lines[i]) % 4 # 0

\* C11: a custom-emoji node whose id resolved to a miss is drawn as the text
\* "[:name:]", name being the display name of the emoji, at the cursor, and
\* the cursor advances by the measured width of that text (in whole pixels,
\* see C10).
C11_FallbackIsBracketedName ==
  \A c \in Calls : \A n \in DOMAIN call[c].ops :
    LET ops == call[c].ops
        lines == call[c].lines
    IN ( /\ ops[n].op \in DrawOps
         /\ ops[n].node > 0
         /\ lines[ops[n].line][ops[n].node].type = "DISCORD_EMOJI"
         /\ call[c].ds
         /\ LET id == lines[ops[n].line][ops[n].node].content
            IN /\ Resolved(c, DiscordPath(IntOf(id)))
               /\ ResultOf(c, DiscordPath(IntOf(id))) = None )
       => /\ ops[n].op = "text"
          /\ ops[n].text = "[:" \o RefName \o ":]"
          /\ ops[n].x = ops[n].cur
          /\ ops[n].adv = Trunc(getlength(font, ops[n].text), 4)

\* C12: after close() or aclose() (or leaving the async context), every
\* render call begun on the renderer ends in an error: none returns having
\* rendered.
C12_RenderAfterTeardownFails ==
  \A c \in Calls : call[c].late => call[c].pc # "done"

\* the y of the cursor when the operation n of the call c was issued: a
\* bitmap is pasted y_diff below it
CursorY(c, n) ==
  IF call[c].ops[n].op = "paste" THEN call[c].ops[n].y - call[c].y_diff
  ELSE call[c].ops[n].y

Pastes(c) == {n \in DOMAIN call[c].ops : call[c].ops[n].op = "paste"}

\* C14 as claimed: the vertical offset of every paste of a call is
\* floor((line_height - font_size) / 2), also when line_height < font_size
C14_OffsetIsFloor ==
  \A c \in Calls :
    call[c].pc = "done" =>
      \A n \in Pastes(c) :
        call[c].ops[n].y = XY0[2] + (call[c].ops[n].line - 1) * call[c].line_height
                     + ((4 * call[c].line_height - get_font_size(font)) \div 8)

\* C14, amended: the vertical offset of every paste of a call is
\* int((line_height - font_size) / 2), the half difference cut toward zero,
\* the same for all lines of the call: floor of the half difference when
\* line_height >= font_size (2 for line_height 20 and font_size 16), and
\* its ceiling when line_height < font_size.
C14_OffsetIsTruncated ==
  \A c \in Calls :
    call[c].pc = "done" =>
      LET diff == 4 * call[c].line_height - get_font_size(font)
          y_diff == call[c].y_diff
      IN /\ \A n \in Pastes(c) :
              call[c].ops[n].y =
                XY0[2] + (call[c].ops[n].line - 1) * call[c].line_height + y_diff
         /\ Pastes(c) # {} =>
              /\ diff >= 0 => y_diff = diff \div 8
              /\ diff < 0 => y_diff = -((-diff) \div 8)
              /\ (call[c].line_height = 20 /\ get_font_size(font) = 64) => y_diff = 2

\* C14 witness: a bitmap was pasted in a call whose line_height is below the
\* font size by a fraction of a pixel, so that cutting and rounding down differ
C14_Witness ==
  \E c \in Calls :
    /\ call[c].pc = "done"
    /\ Pastes(c) # {}
    /\ 4 * call[c].line_height < get_font_size(font)
    /\ call[c].y_diff # (4 * call[c].line_height - get_font_size(font)) \div 8

\* the picture decoded from the bytes resolved for the node of the paste n
\* of the call c
SourceImage(c, n) ==
  Decode(ResultOf(c, NodePath(call[c].lines[call[c].ops[n].line][call[c].ops[n].node])))

\* C15 as claimed: the prepared bitmap is floor(s) - 1 wide, and its height
\* is width * h / w rounded to the nearest whole number
C15_WidthMinusOneHeightRounded ==
  \A c \in Calls : \A n \in Pastes(c) :
    /\ call[c].ops[n].w = Trunc(get_font_size(font), 4) - 1
    /\ LET num == call[c].ops[n].w * SourceImage(c, n).height
           den == SourceImage(c, n).width
       IN /\ 2 * den * call[c].ops[n].h <= 2 * num + den
          /\ 2 * den * call[c].ops[n].h > 2 * num - den

\* C15, amended: the prepared bitmap is int(s) - 1 wide in pilmoji and
\* int(s) - 2 wide in apilmoji, and its height is int(width * (h / w)) in
\* floating point: width * h / w cut to a whole number, not rounded, when
\* that quotient is no whole number, and the quotient or one less when it
\* is a whole number (122 for a 5 x 41 picture at width 15).
C15_WidthByVersionHeightTruncated ==
  \A c \in Calls : \A n \in Pastes(c) :
    /\ call[c].ops[n].w =
         Trunc(get_font_size(font), 4) - (IF impl = "pilmoji" THEN 1 ELSE 2)
    /\ LET num == call[c].ops[n].w * SourceImage(c, n).height
           den == SourceImage(c, n).width
           h == call[c].ops[n].h
       IN /\ num % den # 0 => (den * h <= num /\ den * (h + 1) > num)
          /\ num % den = 0 => (h = num \div den \/ h = (num \div den) - 1)
          /\ (call[c].ops[n].w = 15 /\ den = 5 /\ SourceImage(c, n).height = 41) => h = 122

\* C15 witness: a bitmap was pasted whose exact height, width * h / w, is
\* nearer to the whole number above it than to the one below
C15_Witness ==
  \E c \in Calls :
    /\ call[c].pc = "done"
    /\ \E n \in Pastes(c) :
         2 * ((call[c].ops[n].w * SourceImage(c, n).height) % SourceImage(c, n).width)
           >= SourceImage(c, n).width

\* the text drawn and the bitmaps pasted by the call c
Draws(c) == {n \in DOMAIN call[c].ops : call[c].ops[n].op \in DrawOps}

\* C16: every node of the i-th line (from 0) is drawn with the cursor at
\* y = y0 + i * L, and the first with the cursor at x0, L being the
\* line_height argument whenever one is given, whatever its value, and the
\* font's line height otherwise.
C16_LineStepIsOverride ==
  \A c \in Calls :
    call[c].pc = "done" =>
      LET L == IF call[c].line_height_arg.given THEN call[c].line_height_arg.value
               ELSE get_font_height(font)
      IN \A n \in Draws(c) :
           /\ CursorY(c, n) = XY0[2] + (call[c].ops[n].line - 1) * L
           /\ call[c].ops[n].node <= 1 => call[c].ops[n].cur = XY0[1]

\* C17: Unicode-emoji keys and custom-emoji ids are held in separate key
\* spaces at every stage: the map and the cache that Unicode nodes are
\* looked up in hold keys of Unicode emoji only, the prepared bitmaps of the
\* two kinds are not in one map, and the map and the cache of custom emoji
\* hold ids only.
C17_SeparateKeySpaces ==
  \A c \in Calls :
    /\ \A k \in DOMAIN call[c].emoji_map : k \in emoji_set(call[c].lines)
    /\ \A k \in DOMAIN emoji_cache : k \in Emojis
    /\ ~(\E k \in DOMAIN call[c].resized : k \in emoji_set(call[c].lines))
         \/ ~(\E k \in DOMAIN call[c].resized : k \in ds_emj_set(call[c].lines))
    /\ \A k \in DOMAIN call[c].discord_map : k \in discord_emoji_set(call[c].lines)
    /\ \A k \in DOMAIN discord_emoji_cache : k \in Ids

\* C18: on a renderer with in-memory caching, no step removes a key from
\* either in-memory cache, except a step of close(), after which both caches
\* are empty; on a renderer without in-memory caching both caches are empty
\* in every state.
C18_CacheKeysOnlyGrow ==
  [][ IF cache_on
      THEN \/ /\ DOMAIN emoji_cache \subseteq DOMAIN emoji_cache'
              /\ DOMAIN discord_emoji_cache \subseteq DOMAIN discord_emoji_cache'
           \/ Closes
      ELSE /\ emoji_cache = Empty /\ discord_emoji_cache = Empty
           /\ emoji_cache' = Empty /\ discord_emoji_cache' = Empty
    ]_vars

\* C18 witness: close() emptied the caches of a caching renderer while a
\* call held a cached stream, and a task has put a key into a cache again
C18_Witness ==
  /\ cache_on
  /\ torn
  /\ \E c \in Calls : call[c].closed # {}
  /\ (emoji_cache # Empty \/ discord_emoji_cache # Empty)

\* the draw operations the call c issued for the node at position p; an
\* operation of the loop without emoji (node 0) draws the whole line, which
\* is one node
NodeOps(c, p) ==
  {n \in Draws(c) : call[c].ops[n].line = p[1] /\ call[c].ops[n].node \in {0, p[2]}}

\* the keys of the call c that resolved to nothing
Misses(c) ==
  {k \in DOMAIN call[c].emoji_map : call[c].emoji_map[k] = None}
    \cup {k \in DOMAIN call[c].discord_map : call[c].discord_map[k] = None}

\* C19: in a render call that completed, every node of every line has exactly
\* one draw operation (a text drawn or a bitmap pasted), and the operations
\* were issued line by line from the top and node by node from the left,
\* whichever emoji resolved to nothing.
C19_OneOperationPerNodeInOrder ==
  \A c \in Calls :
    call[c].pc = "done" =>
      /\ \A p \in Positions(call[c].lines) : Cardinality(NodeOps(c, p)) = 1
      /\ \A m, n \in Draws(c) :
           m < n => \/ call[c].ops[m].line < call[c].ops[n].line
                    \/ /\ call[c].ops[m].line = call[c].ops[n].line
                       /\ call[c].ops[m].node < call[c].ops[n].node

\* C19 witness: a call completed in which the first node of a line is an
\* emoji that resolved to nothing and a later node of the line was drawn
C19_Witness ==
  \E c \in Calls :
    /\ call[c].pc = "done"
    /\ Misses(c) # {}
    /\ \E p \in Positions(call[c].lines) :
         /\ p[2] = 1
         /\ At(call[c].lines, p).type # "TEXT"
         /\ \E n \in NodeOps(c, p) : call[c].ops[n].op = "text"
         /\ \E n \in Draws(c) : call[c].ops[n].line = p[1] /\ call[c].ops[n].node = 2

\* C20: the request EmojiCDNSource.get_emoji of pilmoji issues for a Unicode
\* key that is not on disk names that key and the style: the URL downloaded
\* for the key k is the URL of k on the host.
C20_RequestNamesKey ==
  impl = "pilmoji" =>
    \A c \in Calls : \A p \in Paths :
      (IsEmojiPath(p) /\ fetches(c, p) > 0)
        => co[<<c, p>>].url = <<"emojicdn.elk.sh", p[2], Style>>

\* ------------------------------------------------------------- calls followed from one to the next
\* One pilmoji renderer with the in-memory cache, its render calls one after
\* the other, and what each could not resolve kept for the calls after it
InitRetry ==
  /\ Init
  /\ impl = "pilmoji"
  /\ cache_on
  /\ font.size = 26

NextRetry ==
  \/ \E d \in BOOLEAN : \E ls \in LineLists(d) : PText(Caller, d, ls)
  \/ \E t \in Slots : TaskStart(t)
  \/ \E t \in Slots : GetRead(t)
  \/ \E t \in Slots : \E resp \in Responses : GetDownload(t, resp)
  \/ \E t \in Slots : GetOpen(t)
  \/ \E t \in Slots : \E n \in 0..MaxBody : GetWrite(t, n)
  \/ \E t \in Slots : GetClose(t)
  \/ \E t \in Slots : GetReturn(t)
  \/ PDraw(Caller)
  \/ LeaveNoted(Caller)
  \/ Close

SpecRetry == InitRetry /\ [][NextRetry]_vars

\* the in-memory cache holds the key of the file p
InCache(p) == KeyOf(p) \in DOMAIN CacheOf(p)

\* C21: a miss is never stored in the in-memory cache. No entry of the two
\* caches is None; a key that resolved to None in this call is not in the
\* cache; and a key whose latest resolution in an earlier call returned
\* None is not in the cache until a call resolves it again, and the call
\* that does so calls the source for it.
C21_MissIsResolvedAgain ==
  /\ \A k \in DOMAIN emoji_cache : emoji_cache[k] # None
  /\ \A k \in DOMAIN discord_emoji_cache : discord_emoji_cache[k] # None
  /\ \A p \in NoBitmap(call[Caller]) : ~InCache(p)
  /\ \A p \in missed :
       IF co[<<Caller, p>>].pc \notin {"idle", "new"}
       THEN src_calls(Caller, p) = 1
       ELSE ~InCache(p)

\* C21 witness: a key that resolved to None in an earlier call was resolved
\* by a later call through the source, this time to a bitmap, which is now
\* in the cache
C21_Witness ==
  /\ call[Caller].pc = "done"
  /\ \E p \in missed :
       /\ call[Caller].started[p] = 1
       /\ Resolved(Caller, p)
       /\ src_calls(Caller, p) = 1
       /\ Decodable(ResultOf(Caller, p))
       /\ InCache(p)
       /\ CacheOf(p)[KeyOf(p)] = ResultOf(Caller, p)

\* ------------------------------------------------------------- the tokenizer on its own
\* one line of to_nodes(text, ...) / helper.parse_lines(lines, support_ds_emj)
to_nodes ==
  /\ ~tk.done
  /\ tk' = [tk EXCEPT !.nodes = Scan(tk.line, tk.detect, 1, <<>>, <<>>), !.done = TRUE]
  /\ UNCHANGED <<config, disk, caches, call, co, torn, missed>>

InitTokenize ==
  /\ InitRenderer
  /\ impl = "pilmoji"
  /\ cache_on
  /\ dirs = {}
  /\ font.size = 26
  /\ tk \in [line : RawLines, detect : BOOLEAN, nodes : {<<>>}, done : {FALSE}]

NextTokenize == to_nodes

SpecTokenize == InitTokenize /\ [][NextTokenize]_vars

\* the contents of the nodes, concatenated in order
RECURSIVE Concat(_)
Concat(nodes) == IF nodes = <<>> THEN "" ELSE nodes[1].content \o Concat(Tail(nodes))

HasReference(nodes) == \E n \in DOMAIN nodes : nodes[n].type = "DISCORD_EMOJI"

\* C13 as claimed: for every line, with detection on or off, the contents
\* of the nodes concatenated in order are the line
C13_RoundTrip ==
  tk.done => Concat(tk.nodes) = Str(tk.line)

\* C13, amended: the contents of the nodes concatenated in order are the
\* line whenever detection is off or the line holds no custom-emoji
\* reference; with detection on, a reference <:name:id> becomes a node whose
\* content is the id alone, and the concatenation is not the line.
C13_RoundTripWithoutReference ==
  tk.done =>
    /\ (~tk.detect => ~HasReference(tk.nodes))
    /\ (~HasReference(tk.nodes) => Concat(tk.nodes) = Str(tk.line))
    /\ (HasReference(tk.nodes) => Concat(tk.nodes) # Str(tk.line))
    /\ \A n \in DOMAIN tk.nodes :
         tk.nodes[n].type = "DISCORD_EMOJI" =>
           \E i, j \in DOMAIN tk.line :
             /\ 1 < i /\ i <= j /\ j < Len(tk.line)
             /\ tk.line[i - 1] = ":" /\ tk.line[j + 1] = ">"
             /\ \A k \in i..j : tk.line[k] \in Digits
             /\ tk.nodes[n].content = Str(SubSeq(tk.line, i, j))

\* C13 witness: a line holding a custom-emoji reference was tokenized with
\* detection on into the node of its id
C13_Witness ==
  /\ tk.done
  /\ tk.detect
  /\ Str(tk.line) = "<:n:7>"
  /\ tk.nodes = <<DiscordNode>>

\* ------------------------------------------------------------- concurrent calls of the source
\* EmojiCDNSource.get_emoji / get_discord_emoji called by two coroutines
\* that run on one event loop against one cache directory, beside
\* LocalEmojiSource.download_all_emojis on the same directory: one step for
\* each stretch between two awaits.
InitSource ==
  /\ Init
  /\ impl = "pilmoji"
  /\ ~cache_on
  /\ font.size = 26

\* the coroutines that are under way, and how many may be at once
Coroutines == {t \in Slots : co[t].pc # "idle"}
MaxCoroutines == 2

NextSource ==
  \/ \E c \in Calls : \E p \in Paths :
       Cardinality(Coroutines) < MaxCoroutines /\ GetCall(c, p)
  \/ \E emj \in Emojis :
       Cardinality(Coroutines) < MaxCoroutines /\ download_emoji(emj)
  \/ \E t \in Slots : GetRead(t)
  \/ \E t \in Slots : \E resp \in Responses : GetDownload(t, resp)
  \/ \E t \in Slots : GetOpen(t)
  \/ \E t \in Slots : \E n \in 0..MaxBody : GetWrite(t, n)
  \/ \E t \in Slots : GetClose(t)
  \/ \E t \in Slots : GetReturn(t)
  \/ \E t \in Slots : GetDone(t)

SpecSource == InitSource /\ [][NextSource]_vars

\* C8: in every interleaving of two resolutions against one cache directory,
\* a resolution that found the file existing returns the complete bytes of
\* a finished download, never the empty or partial content of a file that
\* is being written.
C8_HitReadsCompleteFile ==
  \A t \in Slots :
    (co[t].kind = "call" /\ co[t].pc = "returned" /\ co[t].hit) => co[t].ret \in Bodies

\* ------------------------------------------------------------- overlapping calls
\* Two render calls on one pilmoji renderer with the in-memory cache that
\* overlap, the tasks of a call that raised running on beside the next
\* call, and close() coming at any time
OverlapInputs ==
  { <<FALSE, << <<TextNode>> >> >>,
    <<FALSE, << <<EmojiNode>> >> >>,
    <<TRUE, << <<EmojiNode, DiscordNode>> >> >> }

\* the downloads of the overlapping calls end in the picture or in a timeout
OverlapResponses == {r \in Responses : r.body = PngTall \/ r.exc = "ConnectTimeout"}

InitOverlap ==
  /\ Init
  /\ impl = "pilmoji"
  /\ cache_on
  /\ font.size = 26
  /\ "discord" \in dirs
  /\ disk = Empty

NextOverlap ==
  \/ \E a \in OverlapInputs : PText("c1", a[1], a[2])
  \/ \E a \in OverlapInputs : call["c1"].pc # "idle" /\ PText("c2", a[1], a[2])
  \/ \E t \in Slots : TaskStart(t)
  \/ \E t \in Slots : GetRead(t)
  \/ \E t \in Slots : \E resp \in OverlapResponses : GetDownload(t, resp)
  \/ \E t \in Slots : GetOpen(t)
  \/ \E t \in Slots : \E n \in {0, MaxBody} : GetWrite(t, n)
  \/ \E t \in Slots : GetClose(t)
  \/ \E t \in Slots : GetReturn(t)
  \/ \E c \in Calls : PDraw(c)
  \/ Close

SpecOverlap == InitOverlap /\ [][NextOverlap]_vars
====
